---------------------------- MODULE Spec2Model ----------------------------
(***************************************************************************)
(* Ingestion engine of the ATP indexer: IngestionManager, BackfillService, *)
(* TopicSubscriber and the tables they write (packages/indexer).           *)
(*                                                                         *)
(* Every `await` of the TypeScript code is a point where other callbacks   *)
(* may run; an action of this module is the code between two awaits.  A    *)
(* pc value names the await a continuation is suspended at.  A database    *)
(* statement takes effect in the action that resumes its awaiter.          *)
(***************************************************************************)
EXTENDS Integers, Sequences, FiniteSets, TLC

(***************************************************************************)
(* Bounds of the model.                                                    *)
(***************************************************************************)
MaxSeq == 3        \* messages published per topic
StreamLen == 5     \* messages of the stream of a topic
PageSize == 2      \* mirror page limit (100 in the code)
MaxChains == 3     \* startTopic calls per process (seed list + addTopic)
MaxFaults == 2     \* injected failures: database, mirror, subscription
MaxAdds == 1       \* addTopic calls
ManagerSeq == 1    \* messages published per topic where the seed list has two entries
ManagerFaults == 1 \* injected failures where the seed list has two entries
RentalFaults == 1  \* injected failures where the seed topic carries rental events
BackoffSeq == 1    \* messages published where failures repeat
BackoffFaults == 8 \* injected failures where failures repeat
MaxStops == 2      \* stop() calls
StopFaults == 1    \* injected failures where stop() is called
MaxRestarts == 1   \* stop() calls after which start() is called again
RestartSeq == 1    \* messages published where start() is called again
RestartFaults == 1 \* injected failures where start() is called again
RefireSeq == 1     \* messages published where an error handler is called twice
RefireFaults == 2  \* calls of the error handler of a subscription

Topics == {"A", "B"}
Seqs == 1..StreamLen
Chains == 1..MaxChains
AgentIds == {"a1", "a2"}
RentalIds == {"r1"}
NoTopic == "none"

(***************************************************************************)
(* The message streams.  A payload is described by what the parser reads   *)
(* from it:                                                                *)
(*   utf8      its bytes are valid UTF-8                                   *)
(*   doc       what JSON.parse makes of its text: "notjson" when it        *)
(*             throws, else the kind of value                              *)
(*   type      the `type` field of a mapping ("" when absent)              *)
(*   complete  the fields required by the schema of that type are present  *)
(*   keys      the keys from, text and timestamp are present               *)
(*   comms     they are strings: the comms shape                           *)
(***************************************************************************)
Payloads ==
  << [utf8 |-> TRUE, doc |-> "object",  type |-> "AGENT_INITIALIZATION",  complete |-> TRUE,  keys |-> FALSE, comms |-> FALSE, agentId |-> "a1", rentalId |-> "r1"],
     [utf8 |-> TRUE, doc |-> "object",  type |-> "OPENCLAW_ACTION",       complete |-> TRUE,  keys |-> FALSE, comms |-> FALSE, agentId |-> "a1", rentalId |-> "r1"],
     [utf8 |-> TRUE, doc |-> "notjson", type |-> "",                      complete |-> FALSE, keys |-> FALSE, comms |-> FALSE, agentId |-> "a1", rentalId |-> "r1"],
     [utf8 |-> TRUE, doc |-> "object",  type |-> "",                      complete |-> FALSE, keys |-> FALSE, comms |-> FALSE, agentId |-> "a1", rentalId |-> "r1"],
     [utf8 |-> TRUE, doc |-> "object",  type |-> "OPENCLAW_ACTION",       complete |-> FALSE, keys |-> FALSE, comms |-> FALSE, agentId |-> "a1", rentalId |-> "r1"],
     [utf8 |-> TRUE, doc |-> "object",  type |-> "rental_completed",      complete |-> TRUE,  keys |-> FALSE, comms |-> FALSE, agentId |-> "a1", rentalId |-> "r1"],
     [utf8 |-> TRUE, doc |-> "object",  type |-> "rental_initiated",      complete |-> TRUE,  keys |-> FALSE, comms |-> FALSE, agentId |-> "a1", rentalId |-> "r1"],
     [utf8 |-> TRUE, doc |-> "object",  type |-> "rental_completed",      complete |-> TRUE,  keys |-> FALSE, comms |-> FALSE, agentId |-> "a1", rentalId |-> "r1"],
     [utf8 |-> TRUE, doc |-> "object",  type |-> "",                      complete |-> FALSE, keys |-> TRUE,  comms |-> TRUE,  agentId |-> "a1", rentalId |-> "r1"],
     [utf8 |-> TRUE, doc |-> "object",  type |-> "AGENT_TRANSACTION",     complete |-> TRUE,  keys |-> FALSE, comms |-> FALSE, agentId |-> "a1", rentalId |-> "r1"] >>

Offset(t) == IF t = "A" THEN 0 ELSE 5

Payload(t, n) == Payloads[((n - 1 + Offset(t)) % Len(Payloads)) + 1]

KnownTypes == {"AGENT_INITIALIZATION", "agent_created", "OPENCLAW_ACTION",
               "AGENT_TRANSACTION", "rental_initiated", "rental_completed"}

\* The kinds of JSON value; "null" is also the null of JavaScript
JsonKinds == {"null", "false", "zero", "empty", "true", "number", "string",
              "array", "object"}

\* `!value` of JavaScript for a decoded document
Falsy(v) == v \in {"null", "false", "zero", "empty"}

\* parser.ts decodeBase64Message, and the try/JSON.parse/catch of
\* TopicSubscriber.handleMessage: the decoded value, null when JSON.parse throws
decodeBase64Message(p) == IF p.doc = "notjson" THEN "null" ELSE p.doc

\* parser.ts classifyMessageType: null is "null".  `!data || typeof data !==
\* 'object'` lets arrays and mappings through; an array has none of the keys.
classifyMessageType(p) ==
  IF decodeBase64Message(p) \notin {"array", "object"} THEN "null"
  ELSE IF p.type # "" THEN p.type
  ELSE IF p.keys THEN "agent_comms"
  ELSE "unknown"

\* A validateMessage that trusts the `type` field without parsing the
\* document against the schema of the type
validateMessageByTypeAlone(p) ==
  IF p.doc # "object" THEN "none"
  ELSE IF p.type \in KnownTypes THEN p.type
  ELSE IF p.comms THEN "agent_comms"
  ELSE "none"

\* parser.ts validateMessage: the schema that accepts the document, "none"
\* when none does.  Every schema is a z.object, which accepts mappings only.
\* agentCommsSchema has no `type` field and accepts any document carrying
\* the comms strings; the parsed event keeps the keys of the schema only.
validateMessage(p) ==
  IF p.doc # "object" THEN "none"
  ELSE IF p.type \in KnownTypes /\ p.complete THEN p.type
  ELSE IF p.comms THEN "agent_comms"
  ELSE "none"

Validated(t, n) == validateMessage(Payload(t, n)) # "none"

(***************************************************************************)
(* The database.  hcs, agentEvents and agentComms have only a generated    *)
(* id as key, so they are bags: a count of rows per source message.        *)
(* hcsRows holds the distinct column values of the hcs rows of a message.  *)
(* The columns an event writes from its own fields or from the clock are   *)
(* held as the stamp of the event that wrote them last (0: never written): *)
(* lastSeen is agents.last_seen_at, completedBy stands for total_cost_usd, *)
(* settlement and completed_at of a rental.                                *)
(***************************************************************************)
EmptyBag == [t \in Topics |-> [n \in Seqs |-> 0]]

EmptyDb ==
  [hcs         |-> EmptyBag,
   hcsRows     |-> [t \in Topics |-> [n \in Seqs |-> {}]],
   cursor      |-> [t \in Topics |-> 0],
   agents      |-> {},
   lastSeen    |-> [a \in AgentIds |-> 0],
   agentEvents |-> EmptyBag,
   rentals     |-> [r \in RentalIds |-> "none"],
   completedBy |-> [r \in RentalIds |-> 0],
   agentComms  |-> EmptyBag]

\* The event of message (t, n), as the value of the columns written from it
Stamp(t, n) == n + Offset(t)

\* schema.ts hcsMessages: the column sets with a unique constraint, besides
\* the generated id.  The table declares three plain indexes and none unique.
hcsMessagesUnique == {}

\* INSERT INTO hcs_messages ... ON CONFLICT DO NOTHING, with the values `row`
insertHcsMessage(d, t, n, row) ==
  IF {"topic_id", "sequence_number"} \in hcsMessagesUnique /\ d.hcs[t][n] > 0
  THEN d
  ELSE [d EXCEPT !.hcs[t][n] = @ + 1, !.hcsRows[t][n] = @ \cup {row}]

\* payer_account_id of the mirror's message (t, n)
PayerOf(t, n) == "0.0.2"

\* parser.ts parseMessage: the ParsedMessage of a mirror message.  `!decoded`
\* is true of a payload that is not JSON and of the documents null, false, 0
\* and "".
parseMessage(p) ==
  LET decoded == decodeBase64Message(p)
      validated == validateMessage(p)
  IN IF Falsy(decoded)
     THEN [decoded |-> "null", validated |-> "none", messageType |-> "null",
           error |-> "Failed to decode base64 message"]
     ELSE [decoded |-> decoded, validated |-> validated,
           messageType |-> classifyMessageType(p),
           error |-> IF validated = "none" THEN "Message failed validation"
                     ELSE "none"]

\* TopicSubscriber.handleMessage, lines 108-116: decoded, messageType and
\* validated of an SDK message
handleMessageParse(p) ==
  LET decoded == decodeBase64Message(p)
  IN [decoded     |-> decoded,
      validated   |-> IF Falsy(decoded) THEN "none" ELSE validateMessage(p),
      messageType |-> IF Falsy(decoded) THEN "null" ELSE classifyMessageType(p)]

\* The payload bytes of a message as the network delivers them.  A byte
\* string is described by whether it is valid UTF-8 and whether it still is
\* the byte string received; a text by whether its UTF-8 encoding is.
WireBytes(p) == [utf8 |-> p.utf8, received |-> TRUE]

\* new TextDecoder().decode(bytes): an invalid sequence becomes U+FFFD
TextDecoderDecode(bytes) == [faithful |-> bytes.received /\ bytes.utf8]

\* Buffer.from(text): the UTF-8 encoding of the text
BufferFrom(text) == [utf8 |-> TRUE, received |-> text.faithful]

\* toString('base64') and its inverse
Base64Encode(bytes) == <<"base64", bytes>>

Base64Decode(b64) == b64[2]

\* TopicSubscriber.handleMessage, lines 101 and 119: the base64 text stored
streamBase64(p) == Base64Encode(BufferFrom(TextDecoderDecode(WireBytes(p))))

\* BackfillService.run, line 264: the `message` field of the mirror's answer
backfillBase64(p) == Base64Encode(WireBytes(p))

\* BackfillService.run, the values of the substrate insert: the columns come
\* from parseMessage(message)
backfillRow(p, payer) ==
  [payerAccountId |-> payer,
   messageBase64  |-> backfillBase64(p),
   decoded        |-> parseMessage(p).decoded,
   messageType    |-> parseMessage(p).messageType]

backfillValues(t, n) == backfillRow(Payload(t, n), PayerOf(t, n))

\* TopicSubscriber.handleMessage, the values of the substrate insert: the
\* columns come from the SDK message; payerAccountId is null
handleMessageRow(p) ==
  [payerAccountId |-> "null",
   messageBase64  |-> streamBase64(p),
   decoded        |-> handleMessageParse(p).decoded,
   messageType    |-> handleMessageParse(p).messageType]

handleMessageValues(t, n) == handleMessageRow(Payload(t, n))

\* processTypedEvent: the table its first statement writes for an event of
\* type k (`'type' in event ? event.type : 'agent_comms'`), "none" when no
\* branch matches
projectedTable(k) ==
  CASE k \in {"AGENT_INITIALIZATION", "agent_created"} -> "agents"
    [] k \in {"OPENCLAW_ACTION", "AGENT_TRANSACTION"} -> "agent_events"
    [] k \in {"rental_initiated", "rental_completed"} -> "rentals"
    [] k = "agent_comms" -> "agent_comms"
    [] OTHER -> "none"

\* The first statement of processTypedEvent for the validated event of (t, n).
projectFirst(d, t, n) ==
  LET p == Payload(t, n)
      k == validateMessage(p)
  IN CASE k \in {"AGENT_INITIALIZATION", "agent_created"} ->
            [d EXCEPT !.agents = @ \cup {p.agentId},
                      !.lastSeen[p.agentId] = Stamp(t, n)]
       [] k \in {"OPENCLAW_ACTION", "AGENT_TRANSACTION"} ->
            [d EXCEPT !.agentEvents[t][n] = @ + 1]
       [] k = "rental_initiated" ->
            IF d.rentals[p.rentalId] = "none"
            THEN [d EXCEPT !.rentals[p.rentalId] = "initiated"]
            ELSE d
       [] k = "rental_completed" ->
            IF d.rentals[p.rentalId] = "none"
            THEN d
            ELSE [d EXCEPT !.rentals[p.rentalId] = "completed",
                           !.completedBy[p.rentalId] = Stamp(t, n)]
       [] k = "agent_comms" ->
            [d EXCEPT !.agentComms[t][n] = @ + 1]
       [] OTHER -> d

\* Whether processTypedEvent issues a second statement (the last_seen touch).
HasSecondStatement(t, n) ==
  validateMessage(Payload(t, n)) \in {"OPENCLAW_ACTION", "AGENT_TRANSACTION"}

\* The second statement of processTypedEvent for an action or transaction
\* event: UPDATE agents SET last_seen_at = now WHERE agent_id = e.agentId
touchLastSeen(d, t, n) ==
  LET a == Payload(t, n).agentId
  IN IF HasSecondStatement(t, n) /\ a \in d.agents
     THEN [d EXCEPT !.lastSeen[a] = Stamp(t, n)]
     ELSE d

\* A processTypedEvent whose rental_completed branch writes the row whether
\* or not the rental exists
processTypedEventUpsertsCompleted(d, t, n) ==
  IF validateMessage(Payload(t, n)) = "rental_completed"
  THEN [d EXCEPT !.rentals[Payload(t, n).rentalId] = "completed",
                 !.completedBy[Payload(t, n).rentalId] = Stamp(t, n)]
  ELSE touchLastSeen(projectFirst(d, t, n), t, n)

\* A processTypedEvent whose rental_initiated branch overwrites an existing
\* row (ON CONFLICT DO UPDATE in place of DO NOTHING)
processTypedEventUpsertsInitiated(d, t, n) ==
  IF validateMessage(Payload(t, n)) = "rental_initiated"
  THEN [d EXCEPT !.rentals[Payload(t, n).rentalId] = "initiated",
                 !.completedBy[Payload(t, n).rentalId] = 0]
  ELSE touchLastSeen(projectFirst(d, t, n), t, n)

\* A processTypedEvent whose action and transaction branches create the
\* agent row when it is absent
processTypedEventCreatesAgent(d, t, n) ==
  IF HasSecondStatement(t, n)
  THEN [projectFirst(d, t, n) EXCEPT !.agents = @ \cup {Payload(t, n).agentId},
                                     !.lastSeen[Payload(t, n).agentId] = Stamp(t, n)]
  ELSE projectFirst(d, t, n)

\* processTypedEvent as a whole
processTypedEvent(d, t, n) == touchLastSeen(projectFirst(d, t, n), t, n)

\* INSERT INTO sync_cursors ... ON CONFLICT (topic_id) DO UPDATE
updateCursor(d, t, n) == [d EXCEPT !.cursor[t] = n]

\* BackfillService.run: `if (parsed.validated) await this.processTypedEvent(...)`,
\* then the cursor upsert: the statement awaited after the substrate insert
backfillAfterInsert(t, n) == IF Validated(t, n) THEN "project" ELSE "cursor"

\* TopicSubscriber.handleMessage: `if (validated) await this.processTypedEvent(...)`,
\* then updateCursor
handleMessageAfterInsert(t, n) == IF Validated(t, n) THEN "project" ELSE "cursor"

\* BackfillService.run, the body of `for (const msg of response.messages)`
\* when every statement succeeds: substrate insert, projection of a validated
\* message, cursor upsert
applyMessage(d, t, n) ==
  LET d1 == insertHcsMessage(d, t, n, backfillValues(t, n))
      d2 == IF backfillAfterInsert(t, n) = "project"
            THEN processTypedEvent(d1, t, n) ELSE d1
  IN updateCursor(d2, t, n)

\* BackfillService.run over one fetched page, the messages lo..hi in
\* ascending order
RECURSIVE applyPage(_, _, _, _)
applyPage(d, t, lo, hi) ==
  IF lo > hi THEN d ELSE applyPage(applyMessage(d, t, lo), t, lo + 1, hi)

\* TopicSubscriber.handleMessage when every statement succeeds: substrate
\* insert, projection of a validated message, cursor upsert
handleMessage(d, t, n) ==
  LET d1 == insertHcsMessage(d, t, n, handleMessageValues(t, n))
      d2 == IF handleMessageAfterInsert(t, n) = "project"
            THEN processTypedEvent(d1, t, n) ELSE d1
  IN updateCursor(d2, t, n)

\* The subscription delivers the messages lo..hi and each handleMessage call
\* ends before the next begins
RECURSIVE handleMessages(_, _, _, _)
handleMessages(d, t, lo, hi) ==
  IF lo > hi THEN d ELSE handleMessages(handleMessage(d, t, lo), t, lo + 1, hi)

\* The database a process leaves when it dies during the processing of
\* message n with k statements of it completed (0: none, 1: the substrate
\* insert, 2: also the projection when the message has one)
interruptedMessage(d, t, n, k) ==
  LET d1 == insertHcsMessage(d, t, n, backfillValues(t, n))
  IN IF k = 0 THEN d
     ELSE IF k = 1 \/ backfillAfterInsert(t, n) # "project" THEN d1
     ELSE processTypedEvent(d1, t, n)

\* A run over the messages after the cursor up to hi that dies in message n
\* after k statements, and the run of the restarted process: getCursor, then
\* the messages after the stored cursor
restartedRun(d, t, hi, n, k) ==
  LET crashed == interruptedMessage(applyPage(d, t, d.cursor[t] + 1, n - 1), t, n, k)
  IN applyPage(crashed, t, crashed.cursor[t] + 1, hi)

\* The rows keyed by the message (t, n) alone
OwnRows(d, t, n) == <<d.hcs[t][n], d.agentEvents[t][n], d.agentComms[t][n]>>


(***************************************************************************)
(* State.                                                                  *)
(***************************************************************************)
VARIABLES
  alive,       \* the process has not exited
  running,     \* IngestionManager._isRunning
  topics,      \* IngestionManager.topics: topic -> TopicState object (0: absent)
  st,          \* the TopicState objects, one per startTopic call
  ch,          \* the pipelines: one chain of continuations per startTopic call
  hpc,         \* TopicSubscriber.handleMessage calls in flight, per chain and message
  db,          \* the database
  published,   \* messages that reached consensus, per topic
  seedTopics,  \* config.seedTopics
  startIdx,    \* position of start() in its list (0: start() not called)
  startWait,   \* the chain start() awaits (0: none)
  nextChain,   \* the next unused chain / TopicState id
  faultsLeft,  \* failures the environment may still inject
  adds,        \* addTopic calls so far
  streamLen,   \* messages the environment publishes per topic
  poison,      \* history: per topic, the messages whose processing failed ahead of
               \* the cursor and has not succeeded since
  projected,   \* history: completed processTypedEvent calls per message
  lastFail,    \* history: the rows of the message whose processing failed last,
               \* when its processing began and after the failure
  hist,        \* history of the calls: stop() calls that returned, the topics
               \* addTopic was called with, callbacks of a stopped subscriber
  call         \* a call of a function of the parser or of TopicSubscriber.start
               \* taken by itself: its input and what it returned; or a
               \* BackfillService instance driven by itself

vars == <<alive, running, topics, st, ch, hpc, db, published, seedTopics,
          startIdx, startWait, nextChain, faultsLeft, adds, streamLen, poison,
          projected, lastFail, hist, call>>

\* manager.ts TopicState, as startTopic creates it
NoState ==
  [topic |-> NoTopic, status |-> "idle", reconnectAttempts |-> 0,
   lastError |-> FALSE, reconnectTimeout |-> 0, subscriber |-> 0, backfill |-> 0]

\* A chain: the locals of runBackfillThenStream / BackfillService.run /
\* startStreaming and of the TopicSubscriber it ends in.
\*   state   the TopicState captured by the running function
\*   origin  who awaits the current runBackfillThenStream call
\*   from    the cursor the page request carries; i..hi the page being processed
\*   own     history: OwnRows of message i when its processing began
\*   next    the next sequence number the subscription delivers
\*   ret     the first runBackfillThenStream call of the chain has returned
\*   delay   the delay of the reconnect timer set last, in milliseconds
\*   shouldStop  BackfillService._shouldStop of the pass in progress
\*   errs    history: onError calls of the subscribers of the chain since the
\*           last one was created
\*   handoff history: the stored cursor when the last backfill pass returned
\*   messagesProcessed, lastTimestamp  the counters of BackfillService.run
\*           (lastTimestamp 0: undefined)
\*   began   history: the cursor the pass in progress read
\*   fetched history: the messages of the pages the pass in progress was given
\*   result  what the last pass returned, NoResult before it returns
\*   fired   history: calls of the SDK error handler of the subscription the
\*           chain created last
NoResult == [returned |-> FALSE]

NoChain ==
  [pc |-> "unused", topic |-> NoTopic, state |-> 0, origin |-> "none",
   from |-> 0, i |-> 0, hi |-> 0, hasNext |-> FALSE, own |-> <<0, 0, 0>>,
   next |-> 0, ret |-> FALSE, delay |-> 0, shouldStop |-> FALSE, errs |-> 0,
   handoff |-> 0, messagesProcessed |-> 0, lastTimestamp |-> 0, began |-> 0,
   fetched |-> 0, result |-> NoResult, fired |-> 0]

\* A handleMessage call: the statement it awaits, and (history) OwnRows of its
\* message when it began
NoHandler == [step |-> "none", own |-> <<0, 0, 0>>]

MessagePcs == {"insert", "project", "cursor"}
BackfillPcs == {"bf_getCursor", "bf_fetch"} \cup MessagePcs

\* config.ts backfillPageDelayMs, the default
PageDelayMs == 100

\* history: nothing has been called
\*   stops      stop() calls that have returned
\*   added      the topics addTopic has been called with
\*   lateError  onError calls of a TopicSubscriber after its stop() returned
\*   firstChain the first chain of the start() call made last
NoCalls == [stops |-> 0, added |-> {}, lateError |-> 0, firstChain |-> 1]

\* No function is examined by itself
NoCall == [fn |-> "none"]

Min(a, b) == IF a < b THEN a ELSE b

(***************************************************************************)
(* IngestionManager (manager.ts).  The operators take the TopicState       *)
(* objects S, the chains C, the topics map and _isRunning, and give the    *)
(* new [st, ch].                                                           *)
(***************************************************************************)

\* scheduleReconnect: the first delay and the largest delay, in milliseconds
BaseDelayMs == 1000
MaxDelayMs == 60000

\* A delay that doubles without a ceiling
reconnectDelayUncapped(attempts) == BaseDelayMs * 2^(attempts - 1)

\* Math.min(1000 * Math.pow(2, attempts - 1), 60000)
reconnectDelay(attempts) == Min(BaseDelayMs * 2^(attempts - 1), MaxDelayMs)

\* scheduleReconnect(topicId), called by chain c
scheduleReconnect(S, C, tmap, run, c) ==
  LET s == tmap[C[c].topic]
  IN IF s = 0 \/ ~run
     THEN [st |-> S, ch |-> [C EXCEPT ![c].pc = "done", ![c].ret = TRUE]]
     ELSE [st |-> [S EXCEPT ![s].reconnectAttempts = @ + 1,
                            ![s].reconnectTimeout = c],
           ch |-> [C EXCEPT ![c].pc = "timer", ![c].ret = TRUE,
                            ![c].delay = reconnectDelay(S[s].reconnectAttempts + 1)]]

\* A runBackfillThenStream that goes to startStreaming without a backfill pass
runStreamWithoutBackfill(S, C, tmap, run, c) ==
  LET s == tmap[C[c].topic]
  IN IF s = 0 \/ ~run
     THEN [st |-> S, ch |-> [C EXCEPT ![c].pc = "done", ![c].ret = TRUE]]
     ELSE [st |-> S, ch |-> [C EXCEPT ![c].pc = "ss_getCursor", ![c].state = s]]

\* A runBackfillThenStream that resets the attempt counter when a pass begins
runBackfillThenStreamResetsAttempts(S, C, tmap, run, c) ==
  LET s == tmap[C[c].topic]
  IN IF s = 0 \/ ~run
     THEN [st |-> S, ch |-> [C EXCEPT ![c].pc = "done", ![c].ret = TRUE]]
     ELSE [st |-> [S EXCEPT ![s].status = "backfilling", ![s].backfill = c,
                            ![s].reconnectAttempts = 0],
           ch |-> [C EXCEPT ![c].pc = "bf_getCursor", ![c].state = s,
                            ![c].shouldStop = FALSE]]

\* runBackfillThenStream(topicId) up to the first await of BackfillService.run
\* (run() clears _shouldStop of the new BackfillService)
runBackfillThenStream(S, C, tmap, run, c) ==
  LET s == tmap[C[c].topic]
  IN IF s = 0 \/ ~run
     THEN [st |-> S, ch |-> [C EXCEPT ![c].pc = "done", ![c].ret = TRUE]]
     ELSE [st |-> [S EXCEPT ![s].status = "backfilling", ![s].backfill = c],
           ch |-> [C EXCEPT ![c].pc = "bf_getCursor", ![c].state = s,
                            ![c].shouldStop = FALSE]]

\* startTopic(topicId): a new TopicState replaces whatever the map held
startTopic(S, C, tmap, run, t, c, origin) ==
  runBackfillThenStream(
    [S EXCEPT ![c] = [NoState EXCEPT !.topic = t]],
    [C EXCEPT ![c] = [NoChain EXCEPT !.topic = t, !.origin = origin]],
    [tmap EXCEPT ![t] = c], run, c)

\* A loop over the pages that ends after the first page
lastPageAlways(hasNext, shouldStop) == TRUE

\* BackfillService.run, line 292: the loop over the pages ends
lastPage(hasNext, shouldStop) == ~hasNext \/ shouldStop

\* `return { messagesProcessed, lastTimestamp }` of the pass of chain x, with
\* (history) the cursor the pass began after, the messages of the pages it
\* was given, whether the last page had a next link and whether it was stopped
backfillResult(x) ==
  [returned |-> TRUE, messagesProcessed |-> x.messagesProcessed,
   lastTimestamp |-> x.lastTimestamp, began |-> x.began, fetched |-> x.fetched,
   hasNext |-> x.hasNext, stopped |-> x.shouldStop]

\* runBackfillThenStream after backfill.run() returned, up to the await of
\* getCursor in startStreaming
backfillComplete(S, C, tmap, run, c) ==
  LET s == tmap[C[c].topic]
  IN IF s = 0 \/ ~run
     THEN [st |-> S, ch |-> [C EXCEPT ![c].pc = "done", ![c].ret = TRUE]]
     ELSE [st |-> S, ch |-> [C EXCEPT ![c].pc = "ss_getCursor", ![c].state = s]]

\* the catch block of runBackfillThenStream / startStreaming
pipelineFailed(S, C, tmap, run, c) ==
  scheduleReconnect(
    [S EXCEPT ![C[c].state].status = "error", ![C[c].state].lastError = TRUE],
    C, tmap, run, c)

(***************************************************************************)
(* Initial states: the process after `new IngestionManager()`, an empty    *)
(* database and empty topics.  The seed list is the configuration.         *)
(***************************************************************************)
InitProgram(seeds, len, nf) ==
  /\ alive = TRUE
  /\ running = FALSE
  /\ topics = [t \in Topics |-> 0]
  /\ st = [c \in Chains |-> NoState]
  /\ ch = [c \in Chains |-> NoChain]
  /\ hpc = [c \in Chains |-> [n \in Seqs |-> NoHandler]]
  /\ db = EmptyDb
  /\ published = [t \in Topics |-> 0]
  /\ seedTopics \in seeds
  /\ startIdx = 0
  /\ startWait = 0
  /\ nextChain = 1
  /\ faultsLeft = nf
  /\ adds = 0
  /\ streamLen = len
  /\ poison = [t \in Topics |-> {}]
  /\ projected = EmptyBag
  /\ lastFail = [before |-> <<0, 0, 0>>, after |-> <<0, 0, 0>>]
  /\ hist = NoCalls

InitWith(seeds, len, nf) == InitProgram(seeds, len, nf) /\ call = NoCall

(***************************************************************************)
(* IngestionManager.start and addTopic.                                    *)
(***************************************************************************)

\* start(topics): _isRunning = true, then startTopic of the first topic
Start ==
  /\ alive /\ startIdx = 0
  /\ running' = TRUE
  /\ startIdx' = 1
  /\ IF Len(seedTopics) = 0
     THEN UNCHANGED <<topics, st, ch, startWait, nextChain>>
     ELSE LET r == startTopic(st, ch, topics, TRUE, seedTopics[1], nextChain, "start")
          IN /\ topics' = [topics EXCEPT ![seedTopics[1]] = nextChain]
             /\ st' = r.st
             /\ ch' = r.ch
             /\ startWait' = nextChain
             /\ nextChain' = nextChain + 1
  /\ UNCHANGED <<alive, hpc, db, published, seedTopics, faultsLeft, adds, streamLen, call,
                 poison, projected, lastFail, hist>>

\* start(topics) is called again after stop() has returned, with the seed
\* list: _isRunning = true, then startTopic of the first topic.  The loop of
\* the earlier call, if it is still awaiting its last topic, has nothing
\* left to do.
StartAgain ==
  /\ alive /\ ~running /\ hist.stops >= 1 /\ hist.stops <= MaxRestarts
  /\ startIdx >= Len(seedTopics) /\ Len(seedTopics) > 0
  /\ nextChain <= MaxChains
  /\ running' = TRUE
  /\ startIdx' = 1
  /\ LET r == startTopic(st, ch, topics, TRUE, seedTopics[1], nextChain, "start")
     IN /\ topics' = [topics EXCEPT ![seedTopics[1]] = nextChain]
        /\ st' = r.st
        /\ ch' = r.ch
        /\ startWait' = nextChain
        /\ nextChain' = nextChain + 1
  /\ hist' = [hist EXCEPT !.firstChain = nextChain]
  /\ UNCHANGED <<alive, hpc, db, published, seedTopics, faultsLeft, adds, streamLen, call,
                 poison, projected, lastFail>>

\* start(topics): the loop resumes when the awaited startTopic has returned
StartNextTopic ==
  /\ alive /\ startWait # 0 /\ ch[startWait].ret
  /\ IF startIdx < Len(seedTopics)
     THEN LET t == seedTopics[startIdx + 1]
              r == startTopic(st, ch, topics, running, t, nextChain, "start")
          IN /\ topics' = [topics EXCEPT ![t] = nextChain]
             /\ st' = r.st
             /\ ch' = r.ch
             /\ startWait' = nextChain
             /\ nextChain' = nextChain + 1
     ELSE /\ startWait' = 0
          /\ UNCHANGED <<topics, st, ch, nextChain>>
  /\ startIdx' = startIdx + 1
  /\ UNCHANGED <<alive, running, hpc, db, published, seedTopics, faultsLeft, adds,
                 streamLen, call, poison, projected, lastFail, hist>>

\* addTopic(topicId)
AddTopic(t) ==
  /\ alive /\ adds < MaxAdds
  /\ adds' = adds + 1
  /\ hist' = [hist EXCEPT !.added = @ \cup {t}]
  /\ IF topics[t] # 0 \/ ~running
     THEN UNCHANGED <<topics, st, ch, nextChain>>
     ELSE LET r == startTopic(st, ch, topics, running, t, nextChain, "add")
          IN /\ topics' = [topics EXCEPT ![t] = nextChain]
             /\ st' = r.st
             /\ ch' = r.ch
             /\ nextChain' = nextChain + 1
  /\ UNCHANGED <<alive, running, hpc, db, published, seedTopics, startIdx,
                 startWait, faultsLeft, streamLen, call, poison, projected, lastFail>>

\* A stop() that signals the pipelines and leaves the topics map as it is
StopKeepsTopics ==
  /\ alive /\ hist.stops < MaxStops
  /\ running' = FALSE
  /\ LET S == {topics[t] : t \in Topics} \ {0}
     IN /\ ch' = [c \in Chains |->
                   [ch[c] EXCEPT
                      !.pc = IF @ = "timer" THEN "done"
                             ELSE IF @ = "streaming" THEN "stopped" ELSE @,
                      !.shouldStop = TRUE]]
        /\ st' = [s \in Chains |->
                   IF s \in S THEN [st[s] EXCEPT !.status = "idle"] ELSE st[s]]
  /\ hist' = [hist EXCEPT !.stops = @ + 1]
  /\ UNCHANGED <<alive, topics, hpc, db, published, seedTopics, startIdx,
                 startWait, nextChain, faultsLeft, adds, streamLen, call, poison,
                 projected, lastFail>>

\* stop(): _isRunning = false; for every TopicState of the map
\* clearTimeout(reconnectTimeout), subscriber?.stop() (unsubscribe),
\* backfill?.stop() (_shouldStop = true), status = 'idle'; then topics.clear().
\* The function awaits nothing: it has returned when the action ends.
Stop ==
  /\ alive /\ hist.stops < MaxStops
  /\ running' = FALSE
  /\ LET S == {topics[t] : t \in Topics} \ {0}
         timers == {st[s].reconnectTimeout : s \in S}
         subscribers == {st[s].subscriber : s \in S}
         backfills == {st[s].backfill : s \in S}
     IN /\ ch' = [c \in Chains |->
                   [ch[c] EXCEPT
                      !.pc = IF c \in timers /\ @ = "timer" THEN "done"
                             ELSE IF c \in subscribers /\ @ = "streaming" THEN "stopped"
                             ELSE @,
                      !.shouldStop = @ \/ c \in backfills]]
        /\ st' = [s \in Chains |->
                   IF s \in S THEN [st[s] EXCEPT !.status = "idle"] ELSE st[s]]
  /\ topics' = [t \in Topics |-> 0]
  /\ hist' = [hist EXCEPT !.stops = @ + 1]
  /\ UNCHANGED <<alive, hpc, db, published, seedTopics, startIdx, startWait,
                 nextChain, faultsLeft, adds, streamLen, call, poison, projected,
                 lastFail>>

(***************************************************************************)
(* BackfillService.run (backfill.ts), one action per await.                *)
(***************************************************************************)

\* const cursor = await this.getCursor(); then fetchMessages is issued
BfGetCursorDone(c) ==
  /\ alive /\ ch[c].pc = "bf_getCursor"
  /\ ch' = [ch EXCEPT ![c].pc = "bf_fetch", ![c].from = db.cursor[ch[c].topic],
                       ![c].messagesProcessed = 0, ![c].lastTimestamp = 0,
                       ![c].began = db.cursor[ch[c].topic], ![c].fetched = 0,
                       ![c].hasNext = FALSE, ![c].result = NoResult]
  /\ UNCHANGED <<alive, running, topics, st, hpc, db, published, seedTopics,
                 startIdx, startWait, nextChain, faultsLeft, adds, streamLen, call,
                 poison, projected, lastFail, hist>>

\* mirror-client.ts fetchMessages / fetchNextPage: the page after `from`, at
\* most PageSize messages in ascending order; links.next when the page is full
FetchHi(t, from) == Min(from + PageSize, published[t])

FetchHasNext(t, from) == FetchHi(t, from) - from = PageSize

\* response = await fetchMessages(...) / fetchNextPage(...); the loop starts
\* on the first message of the page, or run() returns on an empty last page
\* or when _shouldStop is set
BfFetchDone(c) ==
  /\ alive /\ ch[c].pc = "bf_fetch"
  /\ LET t == ch[c].topic
         hi == FetchHi(t, ch[c].from)
         more == FetchHasNext(t, ch[c].from)
         got == [ch[c] EXCEPT !.hi = hi, !.hasNext = more,
                              !.fetched = @ + (hi - ch[c].from)]
     IN IF hi > ch[c].from /\ ~ch[c].shouldStop
        THEN /\ ch' = [ch EXCEPT ![c] = [got EXCEPT !.pc = "insert",
                                                    !.i = ch[c].from + 1,
                                                    !.own = OwnRows(db, t, ch[c].from + 1)]]
             /\ st' = st
        ELSE LET r == backfillComplete(
                        st, [ch EXCEPT ![c] = [got EXCEPT !.handoff = db.cursor[t],
                                                          !.result = backfillResult(got)]],
                        topics, running, c)
             IN ch' = r.ch /\ st' = r.st
  /\ UNCHANGED <<alive, running, topics, hpc, db, published, seedTopics,
                 startIdx, startWait, nextChain, faultsLeft, adds, streamLen, call,
                 poison, projected, lastFail, hist>>

\* await db.insert(hcsMessages)...onConflictDoNothing()
BfInsertDone(c) ==
  /\ alive /\ ch[c].pc = "insert"
  /\ db' = insertHcsMessage(db, ch[c].topic, ch[c].i,
                            backfillValues(ch[c].topic, ch[c].i))
  /\ ch' = [ch EXCEPT ![c].pc = backfillAfterInsert(ch[c].topic, ch[c].i)]
  /\ UNCHANGED <<alive, running, topics, st, hpc, published, seedTopics,
                 startIdx, startWait, nextChain, faultsLeft, adds, streamLen, call,
                 poison, projected, lastFail, hist>>

\* await this.processTypedEvent(parsed.validated, ...)
BfProjectDone(c) ==
  /\ alive /\ ch[c].pc = "project"
  /\ db' = processTypedEvent(db, ch[c].topic, ch[c].i)
  /\ projected' = [projected EXCEPT ![ch[c].topic][ch[c].i] = @ + 1]
  /\ ch' = [ch EXCEPT ![c].pc = "cursor"]
  /\ UNCHANGED <<alive, running, topics, st, hpc, published, seedTopics,
                 startIdx, startWait, nextChain, faultsLeft, adds, streamLen, call,
                 poison, lastFail, hist>>

\* await db.insert(syncCursors)...onConflictDoUpdate(); then the next message,
\* the delay before the next page, or the return of run() (at the end of the
\* last page or when _shouldStop is set)
BfCursorDone(c) ==
  /\ alive /\ ch[c].pc = "cursor"
  /\ LET t == ch[c].topic
     IN /\ db' = updateCursor(db, t, ch[c].i)
        /\ poison' = [poison EXCEPT ![t] = @ \ {ch[c].i}]
        /\ LET done == [ch[c] EXCEPT !.messagesProcessed = @ + 1,
                                      !.lastTimestamp = ch[c].i]
           IN IF ch[c].i < ch[c].hi /\ ~ch[c].shouldStop
              THEN /\ ch' = [ch EXCEPT ![c] = [done EXCEPT !.pc = "insert",
                                                          !.i = @ + 1,
                                                          !.own = OwnRows(db, t, ch[c].i + 1)]]
                   /\ st' = st
              ELSE IF ~lastPage(ch[c].hasNext, ch[c].shouldStop)
              THEN /\ ch' = [ch EXCEPT ![c] = [done EXCEPT !.pc = IF PageDelayMs > 0
                                                                 THEN "bf_delay"
                                                                 ELSE "bf_fetch",
                                                          !.from = ch[c].hi]]
                   /\ st' = st
              ELSE LET r == backfillComplete(
                              st, [ch EXCEPT ![c] = [done EXCEPT !.handoff = ch[c].i,
                                                                 !.result = backfillResult(done)]],
                              topics, running, c)
                   IN ch' = r.ch /\ st' = r.st
  /\ UNCHANGED <<alive, running, topics, hpc, published, seedTopics,
                 startIdx, startWait, nextChain, faultsLeft, adds, streamLen, call,
                 projected, lastFail, hist>>

\* await new Promise((r) => setTimeout(r, this.pageDelayMs)); then
\* fetchNextPage is issued
BfDelayDone(c) ==
  /\ alive /\ ch[c].pc = "bf_delay"
  /\ ch' = [ch EXCEPT ![c].pc = "bf_fetch"]
  /\ UNCHANGED <<alive, running, topics, st, hpc, db, published, seedTopics,
                 startIdx, startWait, nextChain, faultsLeft, adds, streamLen, call,
                 poison, projected, lastFail, hist>>

\* What a failing statement leaves behind.  processTypedEvent of an action or
\* transaction event is two statements: the failure of the second leaves the
\* row of the first.
FailureLeaves(step, t, n) ==
  IF step = "project" /\ HasSecondStatement(t, n)
  THEN {db, projectFirst(db, t, n)}
  ELSE {db}

\* history: a failure of the processing of (t, n) ahead of the cursor
Poisoned(t, n) ==
  IF db.cursor[t] < n THEN [poison EXCEPT ![t] = @ \cup {n}] ELSE poison

\* An await of run() rejects (database or mirror error): run() throws, and the
\* catch block of runBackfillThenStream schedules a reconnect
BfFail(c) ==
  /\ alive /\ ch[c].pc \in BackfillPcs /\ faultsLeft > 0
  /\ faultsLeft' = faultsLeft - 1
  /\ db' \in FailureLeaves(ch[c].pc, ch[c].topic, ch[c].i)
  /\ IF ch[c].pc \in MessagePcs
     THEN /\ poison' = Poisoned(ch[c].topic, ch[c].i)
          /\ lastFail' = [before |-> ch[c].own,
                          after |-> OwnRows(db', ch[c].topic, ch[c].i)]
     ELSE UNCHANGED <<poison, lastFail>>
  /\ LET r == pipelineFailed(st, ch, topics, running, c)
     IN ch' = r.ch /\ st' = r.st
  /\ UNCHANGED <<alive, running, topics, hpc, published, seedTopics,
                 startIdx, startWait, nextChain, adds, streamLen, call, projected, hist>>

\* The reconnect timer fires
TimerFire(c) ==
  /\ alive /\ ch[c].pc = "timer"
  /\ LET r == IF running
              THEN runBackfillThenStream(st, [ch EXCEPT ![c].origin = "timer"],
                                         topics, running, c)
              ELSE [st |-> st, ch |-> [ch EXCEPT ![c].pc = "done"]]
     IN ch' = r.ch /\ st' = r.st
  /\ UNCHANGED <<alive, running, topics, hpc, db, published, seedTopics,
                 startIdx, startWait, nextChain, faultsLeft, adds, streamLen, call,
                 poison, projected, lastFail, hist>>

(***************************************************************************)
(* IngestionManager.startStreaming and TopicSubscriber (subscriber.ts).    *)
(***************************************************************************)

\* Where a subscription created with startTimestamp = cursor starts.  With a
\* cursor, one nanosecond after it: the message after the cursor message.
\* Without one no start time is set, and the substrate starts at the epoch
\* or at the time of the subscription.
SubscribeStart(t, cursor) ==
  IF cursor # 0 THEN {cursor + 1} ELSE {1, published[t] + 1}

\* const cursor = await this.getCursor(topicId); status = 'streaming';
\* reconnectAttempts = 0; await subscriber.start() subscribes
SsGetCursorDone(c) ==
  /\ alive /\ ch[c].pc = "ss_getCursor"
  /\ \E nx \in SubscribeStart(ch[c].topic, db.cursor[ch[c].topic]) :
       ch' = [ch EXCEPT ![c].pc = "streaming", ![c].next = nx, ![c].ret = TRUE,
                        ![c].errs = 0, ![c].fired = 0]
  /\ st' = [st EXCEPT ![ch[c].state].status = "streaming",
                      ![ch[c].state].reconnectAttempts = 0,
                      ![ch[c].state].subscriber = c]
  /\ UNCHANGED <<alive, running, topics, hpc, db, published, seedTopics,
                 startIdx, startWait, nextChain, faultsLeft, adds, streamLen, call,
                 poison, projected, lastFail, hist>>

\* getCursor rejects in startStreaming: nothing catches it before the caller
\* of runBackfillThenStream.  main() exits the process when start() rejects;
\* addTopic's caller and the timer callback log it.
SsGetCursorFail(c) ==
  /\ alive /\ ch[c].pc = "ss_getCursor" /\ faultsLeft > 0
  /\ faultsLeft' = faultsLeft - 1
  /\ ch' = [ch EXCEPT ![c].pc = "done", ![c].ret = TRUE]
  /\ alive' = (ch[c].origin # "start")
  /\ UNCHANGED <<running, topics, st, hpc, db, published, seedTopics,
                 startIdx, startWait, nextChain, adds, streamLen, call, poison,
                 projected, lastFail, hist>>

\* subscriber.start() throws: the catch block of startStreaming
SsStartFail(c) ==
  /\ alive /\ ch[c].pc = "ss_getCursor" /\ faultsLeft > 0
  /\ faultsLeft' = faultsLeft - 1
  /\ LET r == pipelineFailed(
                [st EXCEPT ![ch[c].state].reconnectAttempts = 0,
                           ![ch[c].state].subscriber = c],
                [ch EXCEPT ![c].errs = 0], topics, running, c)
     IN ch' = r.ch /\ st' = r.st
  /\ UNCHANGED <<alive, running, topics, hpc, db, published, seedTopics,
                 startIdx, startWait, nextChain, adds, streamLen, call, poison,
                 projected, lastFail, hist>>

\* The listener: handleMessage(message) is called and not awaited; it runs up
\* to its first await (the substrate insert)
Deliver(c) ==
  /\ alive /\ ch[c].pc = "streaming"
  /\ ch[c].next <= published[ch[c].topic]
  /\ hpc[c][ch[c].next].step = "none"
  /\ hpc' = [hpc EXCEPT ![c][ch[c].next] =
               [step |-> "insert", own |-> OwnRows(db, ch[c].topic, ch[c].next)]]
  /\ ch' = [ch EXCEPT ![c].next = @ + 1]
  /\ UNCHANGED <<alive, running, topics, st, db, published, seedTopics,
                 startIdx, startWait, nextChain, faultsLeft, adds, streamLen, call,
                 poison, projected, lastFail, hist>>

\* The error handler of the subscription (terminal failure of the stream):
\* _isRunning = false, onError, onDisconnect
SubscriberError(c) ==
  /\ alive /\ ch[c].pc = "streaming" /\ faultsLeft > 0
  /\ faultsLeft' = faultsLeft - 1
  /\ LET S1 == [st EXCEPT ![ch[c].state].lastError = TRUE]
         C1 == [ch EXCEPT ![c].errs = @ + 1, ![c].fired = @ + 1]
         r == IF running
              THEN scheduleReconnect(
                     [S1 EXCEPT ![ch[c].state].status = "reconnecting"],
                     C1, topics, running, c)
              ELSE [st |-> S1, ch |-> [C1 EXCEPT ![c].pc = "done"]]
     IN ch' = r.ch /\ st' = r.st
  /\ UNCHANGED <<alive, running, topics, hpc, db, published, seedTopics,
                 startIdx, startWait, nextChain, adds, streamLen, call, poison,
                 projected, lastFail, hist>>

\* The error handler of a subscription is called again after it has reported
\* the failure of the stream (the handle is not unsubscribed on an error, and
\* the SDK decides how often it calls the handler): onError, onDisconnect
\* and scheduleReconnect run a second time.  The timer it sets is a new chain.
SubscriberErrorAgain(c) ==
  /\ alive /\ ch[c].fired = 1 /\ faultsLeft > 0 /\ nextChain <= MaxChains
  /\ faultsLeft' = faultsLeft - 1
  /\ LET k == nextChain
         S1 == [st EXCEPT ![ch[c].state].lastError = TRUE]
         C1 == [ch EXCEPT ![c].errs = @ + 1, ![c].fired = @ + 1,
                          ![k] = [NoChain EXCEPT !.topic = ch[c].topic,
                                                 !.state = ch[c].state,
                                                 !.origin = "timer",
                                                 !.pc = "done"]]
         r == IF running
              THEN scheduleReconnect(
                     [S1 EXCEPT ![ch[c].state].status = "reconnecting"],
                     C1, topics, running, k)
              ELSE [st |-> S1, ch |-> C1]
     IN ch' = r.ch /\ st' = r.st
  /\ nextChain' = nextChain + 1
  /\ UNCHANGED <<alive, running, topics, hpc, db, published, seedTopics,
                 startIdx, startWait, adds, streamLen, call, poison,
                 projected, lastFail, hist>>

\* handleMessage: await db.insert(hcsMessages)...onConflictDoNothing()
HInsertDone(c, n) ==
  /\ alive /\ hpc[c][n].step = "insert"
  /\ db' = insertHcsMessage(db, ch[c].topic, n, handleMessageValues(ch[c].topic, n))
  /\ hpc' = [hpc EXCEPT ![c][n].step = handleMessageAfterInsert(ch[c].topic, n)]
  /\ UNCHANGED <<alive, running, topics, st, ch, published, seedTopics,
                 startIdx, startWait, nextChain, faultsLeft, adds, streamLen, call,
                 poison, projected, lastFail, hist>>

\* handleMessage: await this.processTypedEvent(validated, ...)
HProjectDone(c, n) ==
  /\ alive /\ hpc[c][n].step = "project"
  /\ db' = processTypedEvent(db, ch[c].topic, n)
  /\ projected' = [projected EXCEPT ![ch[c].topic][n] = @ + 1]
  /\ hpc' = [hpc EXCEPT ![c][n].step = "cursor"]
  /\ UNCHANGED <<alive, running, topics, st, ch, published, seedTopics,
                 startIdx, startWait, nextChain, faultsLeft, adds, streamLen, call,
                 poison, lastFail, hist>>

\* handleMessage: await this.updateCursor(...)
HCursorDone(c, n) ==
  /\ alive /\ hpc[c][n].step = "cursor"
  /\ db' = updateCursor(db, ch[c].topic, n)
  /\ hpc' = [hpc EXCEPT ![c][n] = NoHandler]
  /\ poison' = [poison EXCEPT ![ch[c].topic] = @ \ {n}]
  /\ UNCHANGED <<alive, running, topics, st, ch, published, seedTopics,
                 startIdx, startWait, nextChain, faultsLeft, adds, streamLen, call,
                 projected, lastFail, hist>>

\* An await of handleMessage rejects: the listener's catch calls onError,
\* which records lastError
HFail(c, n) ==
  /\ alive /\ hpc[c][n].step \in MessagePcs /\ faultsLeft > 0
  /\ faultsLeft' = faultsLeft - 1
  /\ db' \in FailureLeaves(hpc[c][n].step, ch[c].topic, n)
  /\ hpc' = [hpc EXCEPT ![c][n] = NoHandler]
  /\ poison' = Poisoned(ch[c].topic, n)
  /\ lastFail' = [before |-> hpc[c][n].own, after |-> OwnRows(db', ch[c].topic, n)]
  /\ st' = [st EXCEPT ![ch[c].state].lastError = TRUE]
  /\ ch' = [ch EXCEPT ![c].errs = @ + 1]
  /\ hist' = [hist EXCEPT !.lateError = @ + (IF ch[c].pc = "stopped" THEN 1 ELSE 0)]
  /\ UNCHANGED <<alive, running, topics, published, seedTopics,
                 startIdx, startWait, nextChain, adds, streamLen, call, projected>>

\* A message reaches consensus on a topic some pipeline reads
Publish(t) ==
  /\ alive /\ published[t] < streamLen
  /\ \E c \in Chains : ch[c].topic = t
  /\ published' = [published EXCEPT ![t] = @ + 1]
  /\ UNCHANGED <<alive, running, topics, st, ch, hpc, db, seedTopics,
                 startIdx, startWait, nextChain, faultsLeft, adds, streamLen, call,
                 poison, projected, lastFail, hist>>

\* The process dies (a crash, or the exit of main) and is started again: the
\* manager and every continuation are gone, the database and the topics stay
CrashRestart ==
  /\ startIdx > 0 /\ faultsLeft > 0
  /\ faultsLeft' = faultsLeft - 1
  /\ alive' = TRUE
  /\ running' = FALSE
  /\ topics' = [t \in Topics |-> 0]
  /\ st' = [c \in Chains |-> NoState]
  /\ ch' = [c \in Chains |-> NoChain]
  /\ hpc' = [c \in Chains |-> [n \in Seqs |-> NoHandler]]
  /\ startIdx' = 0
  /\ startWait' = 0
  /\ nextChain' = 1
  /\ hist' = [hist EXCEPT !.stops = 0, !.added = {}, !.firstChain = 1]
  /\ UNCHANGED <<db, published, seedTopics, adds, streamLen, call, poison,
                 projected, lastFail>>

(***************************************************************************)
(* Specifications.                                                         *)
(***************************************************************************)
Pipeline ==
  \/ Start
  \/ StartNextTopic
  \/ \E c \in Chains : BfGetCursorDone(c)
  \/ \E c \in Chains : BfFetchDone(c)
  \/ \E c \in Chains : BfInsertDone(c)
  \/ \E c \in Chains : BfProjectDone(c)
  \/ \E c \in Chains : BfCursorDone(c)
  \/ \E c \in Chains : TimerFire(c)
  \/ \E c \in Chains : SsGetCursorDone(c)
  \/ \E c \in Chains : Deliver(c)
  \/ \E c \in Chains, n \in Seqs : HInsertDone(c, n)
  \/ \E c \in Chains, n \in Seqs : HProjectDone(c, n)
  \/ \E c \in Chains, n \in Seqs : HCursorDone(c, n)
  \/ \E t \in Topics : Publish(t)

\* The delay between two pages: a topic with more messages than a page holds
Paging == \E c \in Chains : BfDelayDone(c)

Failures ==
  \/ \E c \in Chains : BfFail(c)
  \/ \E c \in Chains : SsGetCursorFail(c)
  \/ \E c \in Chains : SsStartFail(c)
  \/ \E c \in Chains, n \in Seqs : HFail(c, n)
  \/ CrashRestart

\* One seed topic, with failures of every kind
InitIngest == InitWith({<<"A">>}, MaxSeq, MaxFaults)

NextIngest ==
  \/ Pipeline
  \/ Paging
  \/ Failures
  \/ \E c \in Chains : SubscriberError(c)

SpecIngest == InitIngest /\ [][NextIngest]_vars

\* Seed lists of two entries and addTopic; the only failure is the
\* subscription's
InitManager == InitWith({<<"A", "B">>, <<"A", "A">>}, ManagerSeq, ManagerFaults)

NextManager ==
  \/ Pipeline
  \/ \E t \in Topics : AddTopic(t)
  \/ \E c \in Chains : SubscriberError(c)

SpecManager == InitManager /\ [][NextManager]_vars

\* One seed topic and failures of the pipeline that repeat
InitBackoff == InitWith({<<"A">>}, BackoffSeq, BackoffFaults)

NextBackoff ==
  \/ Pipeline
  \/ \E c \in Chains : BfFail(c)
  \/ \E c \in Chains : SsStartFail(c)
  \/ \E c \in Chains : SubscriberError(c)

SpecBackoff == InitBackoff /\ [][NextBackoff]_vars

\* The seed list [A, B].  Every continuation that can run does run: the event
\* loop runs every callback that is ready, the database answers, and a mirror
\* request ends within its 30 s timeout
InitIndependent == InitWith({<<"A", "B">>}, ManagerSeq, ManagerFaults)

NextIndependent ==
  \/ Pipeline
  \/ \E c \in Chains : SubscriberError(c)

FairIndependent ==
  /\ WF_vars(Start)
  /\ WF_vars(StartNextTopic)
  /\ \A c \in Chains :
       /\ WF_vars(BfGetCursorDone(c))
       /\ WF_vars(BfFetchDone(c))
       /\ WF_vars(BfInsertDone(c))
       /\ WF_vars(BfProjectDone(c))
       /\ WF_vars(BfCursorDone(c))
       /\ WF_vars(TimerFire(c))
       /\ WF_vars(SsGetCursorDone(c))
       /\ WF_vars(Deliver(c))
       /\ \A n \in Seqs :
            /\ WF_vars(HInsertDone(c, n))
            /\ WF_vars(HProjectDone(c, n))
            /\ WF_vars(HCursorDone(c, n))

SpecIndependent == InitIndependent /\ [][NextIndependent]_vars /\ FairIndependent

\* One seed topic and stop() calls; a pipeline or a handler may fail
InitStop == InitWith({<<"A">>}, MaxSeq, StopFaults)

NextStop ==
  \/ Pipeline
  \/ Paging
  \/ Stop
  \/ \E c \in Chains : BfFail(c)
  \/ \E c \in Chains : SubscriberError(c)
  \/ \E c \in Chains, n \in Seqs : HFail(c, n)

SpecStop == InitStop /\ [][NextStop]_vars

\* One seed topic whose stream carries the rental events
InitRentals == InitWith({<<"B">>}, MaxSeq, RentalFaults)

SpecRentals == InitRentals /\ [][NextIngest]_vars

\* One seed topic whose subscription fails, the error handler being called
\* once or twice for the failure
InitRefire == InitWith({<<"A">>}, RefireSeq, RefireFaults)

NextRefire ==
  \/ Pipeline
  \/ \E c \in Chains : SubscriberError(c)
  \/ \E c \in Chains : SubscriberErrorAgain(c)

SpecRefire == InitRefire /\ [][NextRefire]_vars

\* One seed topic; stop() and start() again; the subscription may fail
InitRestart == InitWith({<<"A">>}, RestartSeq, RestartFaults)

NextRestart ==
  \/ Pipeline
  \/ Stop
  \/ StartAgain
  \/ \E c \in Chains : SubscriberError(c)

SpecRestart == InitRestart /\ [][NextRestart]_vars

Init == InitIngest

Next == NextIngest

Spec == Init /\ [][Next]_vars


(***************************************************************************)
(* Properties.                                                             *)
(***************************************************************************)
Stored(t) == {n \in Seqs : db.hcs[t][n] > 0}

Active(c) == ch[c].pc \notin {"unused", "done"}

InFlight(c) == {n \in Seqs : hpc[c][n].step # "none"}

\* C1: hcs_messages holds at most one row per (topic_id, sequence_number),
\* whatever was delivered more than once.
C1_AtMostOneRow ==
  \A t \in Topics, n \in Seqs : db.hcs[t][n] <= 1

\* C2: every cursor write of a topic stores a sequence number greater than or
\* equal to the one it replaces.
C2_CursorNeverDecreases ==
  [][\A t \in Topics : db'.cursor[t] >= db.cursor[t]]_vars

\* C3: in every reachable state a substrate record of (t, n) exists iff n is
\* at most the cursor of t (from the first message observed on), so the
\* cursor is the largest stored sequence number.
C3_RecordIffCursor ==
  \A t \in Topics :
    /\ \A n \in Stored(t) : n <= db.cursor[t]
    /\ db.cursor[t] # 0 => db.cursor[t] \in Stored(t)
    /\ \A n \in Seqs :
         (n <= db.cursor[t] /\ \E k \in Stored(t) : k <= n) => n \in Stored(t)

\* C4: the cursor is never ahead of a substrate record and no projection is
\* behind the cursor: every message from the first stored one up to the
\* cursor has its substrate record, and every stored message up to the cursor
\* that has a projection has had it applied; this holds in the states a crash
\* between two steps leaves.
C4_CursorAfterRecordAndProjection ==
  \A t \in Topics : \A n \in Seqs :
    n <= db.cursor[t] =>
      /\ (\E k \in Stored(t) : k <= n) => n \in Stored(t)
      /\ (n \in Stored(t) /\ Validated(t, n)) => projected[t][n] >= 1

\* C5: the stored sequence numbers of a topic are a contiguous range: no
\* number between two stored ones is missing.
C5_NoGaps ==
  \A t \in Topics : \A a \in Stored(t), b \in Seqs, c \in Stored(t) :
    (a < b /\ b < c) => b \in Stored(t)

\* C6: when a database write fails while a message is processed, the rows of
\* that message are exactly as they were before its processing began.
C6_FailureLeavesNothing ==
  lastFail.after = lastFail.before

\* C7: once the processing of message n failed, the cursor stays below n until
\* n has been processed successfully.
C7_CursorStaysBelowFailed ==
  \A t \in Topics : \A n \in poison[t] : db.cursor[t] < n

\* C8: within one supervisor at most one message is being processed at a
\* time, in backfill and in the stream.
C8_OneMessageAtATime ==
  \A c \in Chains :
    Cardinality(InFlight(c)) + (IF ch[c].pc \in MessagePcs THEN 1 ELSE 0) <= 1

\* C9: no backfill pass of a topic is active while a push subscription of the
\* same topic is subscribed.
C9_BackfillAndStreamNeverOverlap ==
  \A c1 \in Chains, c2 \in Chains :
    ~(/\ ch[c1].topic = ch[c2].topic
      /\ ch[c1].pc \in BackfillPcs \cup {"bf_delay"}
      /\ ch[c2].pc = "streaming")

\* C10: at most one supervisor exists per topic.
C10_OneSupervisorPerTopic ==
  \A t \in Topics : Cardinality({c \in Chains : ch[c].topic = t /\ Active(c)}) <= 1

\* C11: a supervisor never goes from reconnecting directly to streaming: when
\* the reconnect timer of a pipeline fires the pipeline enters backfilling
\* (and so does the status of the topic), and a pipeline subscribes only from
\* the cursor read that follows a backfill pass which returned from its last
\* await without a failure.
C11_ReconnectGoesThroughBackfill ==
  [][\A c \in Chains :
       /\ (ch[c].pc = "timer" /\ ch'[c].pc \notin {"timer", "unused"})
            => /\ ch'[c].pc = "bf_getCursor"
               /\ st'[ch'[c].state].status = "backfilling"
       /\ (ch'[c].pc = "streaming" /\ ch[c].pc # "streaming")
            => ch[c].pc = "ss_getCursor"
       /\ (ch'[c].pc = "ss_getCursor" /\ ch[c].pc # "ss_getCursor")
            => ch[c].pc \in {"bf_fetch", "cursor"}]_vars

\* C11 witness: a pipeline restarted by the reconnect timer is streaming again
C11_Witness ==
  \E c \in Chains :
    /\ ch[c].pc = "streaming" /\ ch[c].origin = "timer"
    /\ st[ch[c].state].status = "streaming"

\* C12: while the manager is running every failure of a pipeline is followed
\* by a new backfill attempt once the reconnect timer fires: a failure leaves
\* the pipeline with a reconnect timer pending, so no pipeline of a running
\* manager has ended.
C12_FailureIsFollowedByBackfill ==
  (alive /\ running) => \A c \in Chains : ch[c].pc # "done"

\* C13: the status getStatus() reports for a topic is one of idle,
\* backfilling, streaming, reconnecting, and it is reconnecting while a
\* reconnect is scheduled for the topic after a failed backfill pass.
C13_StatusAfterBackfillFailure ==
  \A t \in Topics :
    topics[t] # 0 =>
      /\ st[topics[t]].status \in {"idle", "backfilling", "streaming", "reconnecting"}
      /\ (\E c \in Chains : ch[c].topic = t /\ ch[c].pc = "timer")
           => st[topics[t]].status = "reconnecting"

\* The delays of the 1st, 2nd, ... consecutive failure, as far as they grow;
\* every later delay is 60000
DelaySchedule == <<1000, 2000, 4000, 8000, 16000, 32000, 60000>>

\* C14: the retry scheduled after the k-th consecutive failure of a topic has
\* delay min(60000, 1000 * 2^(k-1)) ms, and scheduling a retry raises the
\* attempt counter by exactly one (from 0 when startStreaming has just reset
\* it).
C14_BackoffDelay ==
  [][\A c \in Chains :
       (ch'[c].pc = "timer" /\ ch[c].pc # "timer") =>
         LET s == topics[ch[c].topic]
             k == st'[s].reconnectAttempts
         IN /\ k >= 1
            /\ ch'[c].delay = IF k <= Len(DelaySchedule) THEN DelaySchedule[k] ELSE 60000
            /\ \/ k = st[s].reconnectAttempts + 1
               \/ ch[c].pc = "ss_getCursor" /\ k = 1]_vars

\* C14 witness: the eighth consecutive failure has scheduled a retry at the
\* ceiling of 60000 ms
C14_Witness ==
  \E c \in Chains :
    /\ ch[c].pc = "timer" /\ ch[c].delay = 60000
    /\ st[topics[ch[c].topic]].reconnectAttempts = 8

Pages == {pg \in (0..StreamLen) \X Seqs : pg[1] < pg[2] /\ pg[2] <= pg[1] + PageSize}

\* C16: applying a fetched page a second time changes nothing: from every
\* reachable database, the database after two applications of a page equals
\* the database after one (substrate records, cursor and projected tables).
C16_PageAppliedTwice ==
  \A t \in Topics : \A pg \in Pages :
    LET once == applyPage(db, t, pg[1] + 1, pg[2])
    IN applyPage(once, t, pg[1] + 1, pg[2]) = once

\* C17: wherever the process is interrupted (between two messages or between
\* two write statements of a message) and restarted, the final database equals
\* that of the uninterrupted run over the same messages from the same cursor.
C17_RestartReachesSameState ==
  \A t \in Topics : \A hi \in Seqs : \A n \in Seqs : \A k \in 0..2 :
    (db.cursor[t] < n /\ n <= hi) =>
      restartedRun(db, t, hi, n, k) = applyPage(db, t, db.cursor[t] + 1, hi)

\* C18: a message ingested by backfill and the same message ingested by the
\* stream leave the same substrate record and the same projection, so a
\* backfill of the messages up to m followed by the stream of the rest ends in
\* the state of the stream alone over all of them.
C18_BackfillEqualsStream ==
  \A t \in Topics : \A hi \in Seqs : \A m \in Seqs :
    (db.cursor[t] < m /\ m <= hi) =>
      LET lo == db.cursor[t] + 1
      IN /\ applyMessage(db, t, lo) = handleMessage(db, t, lo)
         /\ handleMessages(applyPage(db, t, lo, m), t, m + 1, hi)
              = handleMessages(db, t, lo, hi)

\* A payload that cannot be decoded, or that no schema accepts: it has no
\* known type or lacks fields of its type, and is not of the comms shape
NoSchemaAccepts(p) ==
  p.doc # "object" \/ (~p.comms /\ (p.type \notin KnownTypes \/ ~p.complete))

ProjectionTables(d) ==
  <<d.agents, d.lastSeen, d.agentEvents, d.rentals, d.completedBy, d.agentComms>>

\* What the processing of (t, n) that takes d to e wrote when it stored one
\* substrate record, left the projected tables alone and set the cursor to n
OnlySubstrateAndCursor(d, e, t, n) ==
  /\ e.hcs = [d.hcs EXCEPT ![t][n] = @ + 1]
  /\ ProjectionTables(e) = ProjectionTables(d)
  /\ e.cursor = [d.cursor EXCEPT ![t] = n]

\* C19: a message that cannot be decoded, is of unknown type, or fails schema
\* validation is processed, by backfill and by the stream, into exactly one
\* substrate record, no change of a projected table and the cursor at that
\* message; no pipeline or handler issues a projection statement for it.
C19_UnvalidatedMessage ==
  \A t \in Topics : \A n \in Seqs :
    NoSchemaAccepts(Payload(t, n)) =>
      /\ OnlySubstrateAndCursor(db, applyMessage(db, t, n), t, n)
      /\ OnlySubstrateAndCursor(db, handleMessage(db, t, n), t, n)
      /\ projected[t][n] = 0
      /\ \A c \in Chains :
           /\ (ch[c].topic = t /\ ch[c].i = n) => ch[c].pc # "project"
           /\ ch[c].topic = t => hpc[c][n].step # "project"

\* C19 witness: the undecodable message 3 of topic A has been processed with
\* no failure: one substrate record, no projection, cursor at 3, streaming
C19_Witness ==
  /\ NoSchemaAccepts(Payload("A", 3))
  /\ db.hcs["A"][3] = 1 /\ db.cursor["A"] = 3 /\ projected["A"][3] = 0
  /\ faultsLeft = MaxFaults
  /\ \E c \in Chains : ch[c].pc = "streaming" /\ st[ch[c].state].status = "streaming"
                       /\ ~st[ch[c].state].lastError

\* C20: a rental_completed event whose rental_id matches no rentals row
\* creates no row and changes no projected table, while its substrate record
\* is stored and the cursor advances to it; a rental_initiated of that id
\* processed afterwards creates the rental.
C20_CompletedWithoutRental ==
  \A t \in Topics : \A n \in Seqs :
    LET rid == Payload(t, n).rentalId
    IN (validateMessage(Payload(t, n)) = "rental_completed" /\ db.rentals[rid] = "none")
       => \A e \in {applyMessage(db, t, n), handleMessage(db, t, n)} :
            /\ OnlySubstrateAndCursor(db, e, t, n)
            /\ \A m \in Seqs :
                 (/\ validateMessage(Payload(t, m)) = "rental_initiated"
                  /\ Payload(t, m).rentalId = rid)
                 => /\ applyMessage(e, t, m).rentals[rid] = "initiated"
                    /\ handleMessage(e, t, m).rentals[rid] = "initiated"

\* C20 witness: the rental_completed message 1 of topic B was projected when
\* no rental existed, and the rental_initiated message 2 then created it
C20_Witness ==
  /\ validateMessage(Payload("B", 1)) = "rental_completed"
  /\ validateMessage(Payload("B", 2)) = "rental_initiated"
  /\ projected["B"][1] = 1 /\ projected["B"][2] = 1
  /\ db.hcs["B"][1] = 1 /\ db.cursor["B"] = 2
  /\ db.rentals["r1"] = "initiated"

\* The order of the rental statuses: a row is absent, initiated, completed
RentalRank(status) ==
  CASE status = "none" -> 0 [] status = "initiated" -> 1 [] status = "completed" -> 2

\* What the replay of the event of (t, n) leaves of the rentals table
ReplayLeavesRentals(t, n) ==
  \A e \in {applyMessage(db, t, n), handleMessage(db, t, n)} :
    e.rentals = db.rentals /\ e.completedBy = db.completedBy

\* C21: the status of a rental never moves back (absent, initiated,
\* completed); once a rental is completed, processing its rental_initiated
\* event again leaves the rentals table unchanged, and processing again the
\* rental_completed event that completed it leaves status, total_cost_usd,
\* settlement and completed_at unchanged.
C21_RentalNeverGoesBack ==
  /\ [](\A t \in Topics : \A n \in Seqs :
          LET p == Payload(t, n)
              k == validateMessage(p)
          IN db.rentals[p.rentalId] = "completed" =>
               /\ k = "rental_initiated" => ReplayLeavesRentals(t, n)
               /\ (k = "rental_completed" /\ db.completedBy[p.rentalId] = Stamp(t, n))
                    => ReplayLeavesRentals(t, n))
  /\ [][\A r \in RentalIds :
          /\ RentalRank(db'.rentals[r]) >= RentalRank(db.rentals[r])
          /\ db'.rentals[r] # "completed" => db'.completedBy[r] = 0]_vars

\* C21 witness: rental r1 of topic B was completed by message 3, and its
\* rental_initiated (message 2) and rental_completed events have both been
\* projected a second time
C21_Witness ==
  /\ db.rentals["r1"] = "completed" /\ db.completedBy["r1"] = Stamp("B", 3)
  /\ projected["B"][2] >= 2 /\ projected["B"][3] >= 2

\* The database with the rows of the agents X added to the agents table, as
\* events of other topics leave them
WithAgents(d, X) ==
  [d EXCEPT !.agents = @ \cup X,
            !.lastSeen = [a \in AgentIds |->
                            IF a \in X \ d.agents THEN Len(Payloads) + 1 ELSE @[a]]]

\* C22: processing a validated OPENCLAW_ACTION or AGENT_TRANSACTION event
\* appends exactly one agent_events row and writes nothing else but last_seen
\* of the agent the event names, and that only when the agent has a row: the
\* set of agent rows never changes, and with no row of that agent_id the
\* agents table is unchanged.
C22_ActionTouchesOnlyItsAgent ==
  \A t \in Topics : \A n \in Seqs : \A X \in SUBSET AgentIds :
    HasSecondStatement(t, n) =>
      LET d == WithAgents(db, X)
          e == processTypedEvent(d, t, n)
          a == Payload(t, n).agentId
      IN /\ e.agentEvents = [d.agentEvents EXCEPT ![t][n] = @ + 1]
         /\ e.agents = d.agents
         /\ e.lastSeen = IF a \in d.agents
                         THEN [d.lastSeen EXCEPT ![a] = Stamp(t, n)]
                         ELSE d.lastSeen
         /\ e = [d EXCEPT !.agentEvents = e.agentEvents, !.lastSeen = e.lastSeen]

\* C22 witness: the action event of message 2 of topic A has been projected
\* once: one agent_events row, and agent a1, created by message 1, was last
\* seen by message 2
C22_Witness ==
  /\ HasSecondStatement("A", 2)
  /\ projected["A"][2] = 1 /\ db.agentEvents["A"][2] = 1
  /\ db.agents = {"a1"} /\ db.lastSeen["a1"] = Stamp("A", 2)

\* stop() has returned and start() has not been called since
Stopped == hist.stops >= 1 /\ ~running

\* C23: once stop() has returned no pipeline and no handler writes a
\* substrate record, a projection or a cursor (the processing in flight ended
\* before stop() returned), and no reconnect timer starts a backfill pass.
C23_NoWriteAfterStop ==
  [][Stopped =>
       /\ db' = db
       /\ \A c \in Chains : ~(ch[c].pc = "timer" /\ ch'[c].pc = "bf_getCursor")]_vars

\* The manager as stop() leaves it and as the constructor makes it: not
\* running, with an empty topics map
NotTracking == ~running /\ topics = [t \in Topics |-> 0]

\* C24: every stop() call returns without an error and leaves the manager not
\* running with an empty topics map (getStatus() is the empty map); a stop()
\* call on a manager that is already stopped, or was never started, changes
\* nothing.
C24_StopIsIdempotent ==
  [][hist'.stops = hist.stops + 1 =>
       /\ NotTracking'
       /\ alive' = alive
       /\ NotTracking =>
            UNCHANGED <<alive, running, topics, st, ch, hpc, db, published,
                        seedTopics, startIdx, startWait, nextChain, faultsLeft,
                        adds, streamLen, poison, projected, lastFail>>]_vars

\* C24 witness: a manager that was started and ingested message 1 has been
\* stopped twice
C24_Witness ==
  /\ hist.stops = 2 /\ startIdx > 0 /\ db.cursor["A"] >= 1
  /\ NotTracking

\* C25: once stop() has set _shouldStop of a backfill pass, the pass begins
\* the processing of no further message (the message in progress may go
\* through its remaining statements) and issues no page request to the
\* mirror, whichever await the pass was suspended at, the inter-page delay
\* included.
C25_StoppedBackfillStartsNoWork ==
  [][\A c \in Chains :
       ch[c].shouldStop =>
         /\ ~(ch'[c].pc = "insert" /\ ch[c].pc # "insert")
         /\ ~(ch'[c].pc = "bf_fetch" /\ ch[c].pc # "bf_fetch")]_vars

\* C26: after TopicSubscriber.stop() has returned the subscriber invokes
\* neither onError nor onDisconnect (no reconnect is scheduled by it) and
\* begins the processing of no message, also when a handleMessage call was in
\* flight when stop() was called.
C26_SubscriberStopIsFinal ==
  /\ [](hist.lateError = 0)
  /\ [][\A c \in Chains :
          ch[c].pc = "stopped" =>
            /\ ch'[c].pc = "stopped"
            /\ \A n \in Seqs : hpc[c][n].step = "none" => hpc'[c][n].step = "none"]_vars

\* C27: the onError callback of a subscription is invoked at most once, only
\* when the subscription has failed for good (it delivers no further message),
\* and while the manager runs its invocation leaves the pipeline with a
\* reconnect scheduled or under way.
C27_ErrorCallbackOnceAndTerminal ==
  \A c \in Chains :
    /\ ch[c].errs <= 1
    /\ ch[c].errs >= 1 =>
         /\ ch[c].pc # "streaming"
         /\ (alive /\ running) =>
              ch[c].pc \in {"timer", "bf_delay", "ss_getCursor"} \cup BackfillPcs

\* The first backfill pass of a seed topic t, awaited by start(), is under way
FirstPassUnderWay(t) ==
  \E c \in Chains :
    ch[c].topic = t /\ ch[c].origin = "start" /\ ~ch[c].ret /\ ch[c].pc # "done"

\* C28: after start([A, B]) the pipeline of topic B does not wait for the
\* backfill of topic A: while the first backfill pass of A is under way,
\* however long it takes, a pipeline of B has been started.
C28_TopicsProgressIndependently ==
  (startIdx >= 1 /\ FirstPassUnderWay("A")) =>
    \E c \in Chains : ch[c].topic = "B" /\ ch[c].pc # "unused"

\* start() has started every topic of its list
StartReturned == running /\ startIdx > Len(seedTopics) /\ startWait = 0

\* C29: addTopic(t) on a running manager that does not track t creates the
\* TopicState of t and starts its pipeline; on a tracked t it changes nothing;
\* on a manager that is not running t is kept, so that once the manager has
\* been started t is tracked.
C29_AddTopic ==
  /\ [](StartReturned => \A t \in hist.added : topics[t] # 0)
  /\ [][\A t \in Topics :
          (adds' = adds + 1 /\ hist'.added = hist.added \cup {t} /\ t \notin hist.added) =>
            /\ (running /\ topics[t] = 0) =>
                 /\ topics'[t] # 0
                 /\ st'[topics'[t]].status = "backfilling"
                 /\ ch'[topics'[t]].pc = "bf_getCursor"
            /\ topics[t] # 0 => UNCHANGED <<topics, st, ch, running, db>>]_vars

\* C30: a subscription that starts after a backfill pass which left a cursor
\* starts right after the cursor stored when that pass returned: its first
\* message is the one after the cursor message, so every later message, those
\* published since the last page included, is delivered and the cursor
\* message is not.
C30_HandOffLosesNothing ==
  [][\A c \in Chains :
       (ch[c].pc = "ss_getCursor" /\ ch'[c].pc = "streaming" /\ ch[c].handoff # 0)
         => ch'[c].next = ch[c].handoff + 1]_vars


(***************************************************************************)
(* TopicSubscriber.start: the start time of the subscription.  A cursor    *)
(* 'S.N' is the pair <<S, N>>, a number of nanoseconds v is the pair       *)
(* <<v div 10^9, v mod 10^9>>, `undefined` is <<>>.  The code adds one      *)
(* nanosecond to the cursor as a BigInt and hands the sum to plusNanos as  *)
(* Number(sum): the IEEE-754 double nearest to it, which has 53            *)
(* significant bits.                                                       *)
(***************************************************************************)
NanosPerSecond == 1000000000

\* <<v div 10^9, v mod 10^9>> for v = seconds * 10^9 + nanos
Nanoseconds(seconds, nanos) ==
  <<seconds + (nanos \div NanosPerSecond), nanos % NanosPerSecond>>

\* The powers of two from 2^53 on, in nanoseconds, each with the distance
\* between neighbouring doubles from it up to the next power
Binades ==
  << [from |-> <<9007199, 254740992>>,    ulp |-> 2],
     [from |-> <<18014398, 509481984>>,   ulp |-> 4],
     [from |-> <<36028797, 18963968>>,    ulp |-> 8],
     [from |-> <<72057594, 37927936>>,    ulp |-> 16],
     [from |-> <<144115188, 75855872>>,   ulp |-> 32],
     [from |-> <<288230376, 151711744>>,  ulp |-> 64],
     [from |-> <<576460752, 303423488>>,  ulp |-> 128],
     [from |-> <<1152921504, 606846976>>, ulp |-> 256] >>

\* a <= b for two numbers of nanoseconds
AtMost(a, b) == a[1] < b[1] \/ (a[1] = b[1] /\ a[2] <= b[2])

\* The distance between neighbouring doubles at v (1 below 2^53)
Ulp(v) ==
  LET above == {k \in 1..Len(Binades) : AtMost(Binades[k].from, v)}
  IN IF above = {} THEN 1
     ELSE Binades[CHOOSE k \in above : \A j \in above : j <= k].ulp

\* Number(BigInt(seconds) * 10^9 + BigInt(nanosNum)): round to nearest, ties
\* to the even mantissa.  seconds * 10^9 is a multiple of 512, so the
\* remainder and the parity of the mantissa are those of nanosNum.
NumberOfBigInt(seconds, nanosNum) ==
  LET u == Ulp(Nanoseconds(seconds, nanosNum))
      r == nanosNum % u
      down == nanosNum - r
      up == IF 2 * r > u \/ (2 * r = u /\ (down \div u) % 2 = 1)
            THEN u ELSE 0
  IN Nanoseconds(seconds, down + up)

\* TopicSubscriber.start, lines 55-62: the argument of query.setStartTime,
\* in nanoseconds since the epoch; <<>> when no start time is set
startTime(startTimestamp) ==
  IF startTimestamp = <<>> THEN <<>>
  ELSE NumberOfBigInt(startTimestamp[1], startTimestamp[2] + 1)

CursorSeconds == {0, 1, 9007198, 9007199, 1152921504, 1700000000, 1762200000, 2147483646}

CursorNanos == {0, 1, 126, 127, 128, 254, 255, 383, 254740990, 254740991,
                500000000, 606846975, 999999743, 999999998, 999999999}

StartTimestamps ==
  {<<>>} \cup {<<s, n>> : s \in CursorSeconds, n \in CursorNanos}

\* new TopicSubscriber(..., startTimestamp): the subscriber before start()
InitStartTime ==
  /\ InitProgram({<<"A">>}, 0, 0)
  /\ call \in {[fn |-> "start", startTimestamp |-> ts, returned |-> FALSE,
                startTime |-> <<>>] : ts \in StartTimestamps}

\* TopicSubscriber.start up to query.setStartTime
SetStartTime ==
  /\ call.fn = "start" /\ ~call.returned
  /\ call' = [call EXCEPT !.returned = TRUE,
                          !.startTime = startTime(call.startTimestamp)]
  /\ UNCHANGED <<alive, running, topics, st, ch, hpc, db, published, seedTopics,
                 startIdx, startWait, nextChain, faultsLeft, adds, streamLen,
                 poison, projected, lastFail, hist>>

NextStartTime == SetStartTime

SpecStartTime == InitStartTime /\ [][NextStartTime]_vars

\* C31: for every cursor 'S.N' the start time given to the subscription is
\* exactly S * 10^9 + N + 1 nanoseconds, the carry into the seconds at
\* N = 999999999 and present-day values of S included.
C31_StartTimeIsCursorPlusOne ==
  (call.fn = "start" /\ call.returned /\ call.startTimestamp # <<>>)
    => call.startTime =
         Nanoseconds(call.startTimestamp[1], call.startTimestamp[2] + 1)


(***************************************************************************)
(* The parser taken by itself: one message goes through the statements of  *)
(* BackfillService.run or of TopicSubscriber.handleMessage that parse it,  *)
(* build its substrate row and choose its projector.                       *)
(***************************************************************************)
DocumentTypes == {"", "FOO"} \cup KnownTypes

\* The payloads a topic can carry.  A document that is not a mapping has no
\* fields; bytes that are not UTF-8 decode to text with U+FFFD in it, which
\* JSON accepts inside a string only; the typed schemas want a numeric
\* timestamp and the comms schema a string.
Documents ==
  {p \in [utf8 : BOOLEAN, doc : {"notjson"} \cup JsonKinds, type : DocumentTypes,
          complete : BOOLEAN, keys : BOOLEAN, comms : BOOLEAN,
          agentId : {"a1"}, rentalId : {"r1"}] :
     /\ p.doc # "object" => (p.type = "" /\ ~p.complete /\ ~p.keys)
     /\ ~p.utf8 => p.doc \in {"notjson", "string", "array", "object"}
     /\ p.comms => p.keys
     /\ p.complete => (p.type \in KnownTypes /\ ~p.comms)}

InitParser ==
  /\ InitProgram({<<"A">>}, 0, 0)
  /\ call \in {[fn |-> f, payload |-> p, step |-> "received",
                parsed |-> <<>>, row |-> <<>>, table |-> "none"] :
                 f \in {"backfill", "handleMessage"}, p \in Documents}

\* BackfillService.run, lines 258-268: parseMessage and the values of the
\* substrate insert
ParseMirrorMessage ==
  /\ call.fn = "backfill" /\ call.step = "received"
  /\ call' = [call EXCEPT !.step = "stored",
                          !.parsed = parseMessage(call.payload),
                          !.row = backfillRow(call.payload, "0.0.2")]
  /\ UNCHANGED <<alive, running, topics, st, ch, hpc, db, published, seedTopics,
                 startIdx, startWait, nextChain, faultsLeft, adds, streamLen,
                 poison, projected, lastFail, hist>>

\* TopicSubscriber.handleMessage, lines 101-128
ParseSdkMessage ==
  /\ call.fn = "handleMessage" /\ call.step = "received"
  /\ call' = [call EXCEPT !.step = "stored",
                          !.parsed = handleMessageParse(call.payload),
                          !.row = handleMessageRow(call.payload)]
  /\ UNCHANGED <<alive, running, topics, st, ch, hpc, db, published, seedTopics,
                 startIdx, startWait, nextChain, faultsLeft, adds, streamLen,
                 poison, projected, lastFail, hist>>

\* `if (validated) await this.processTypedEvent(validated, ...)`
ProjectParsed ==
  /\ call.fn \in {"backfill", "handleMessage"} /\ call.step = "stored"
  /\ call' = [call EXCEPT !.step = "done",
                          !.table = IF call.parsed.validated # "none"
                                    THEN projectedTable(call.parsed.validated)
                                    ELSE "none"]
  /\ UNCHANGED <<alive, running, topics, st, ch, hpc, db, published, seedTopics,
                 startIdx, startWait, nextChain, faultsLeft, adds, streamLen,
                 poison, projected, lastFail, hist>>

NextParser == ParseMirrorMessage \/ ParseSdkMessage \/ ProjectParsed

SpecParser == InitParser /\ [][NextParser]_vars

\* The message of the parser has been parsed and its row built
Parsed == call.fn \in {"backfill", "handleMessage"} /\ call.step # "received"

\* C32: the kind of every decoded document.  A mapping with a `type` field
\* gets the value of that field, known or not; otherwise a document with the
\* keys from, text and timestamp gets agent_comms; every other decoded
\* document, a number, a string or an array included, gets unknown.
C32_Classification ==
  (Parsed /\ call.payload.doc # "notjson") =>
    call.row.messageType =
      (IF call.payload.doc = "object" /\ call.payload.type # ""
         THEN call.payload.type
       ELSE IF call.payload.doc = "object" /\ call.payload.keys
         THEN "agent_comms"
       ELSE "unknown")


\* C33: the message_base64 the substrate row holds decodes to the payload
\* bytes received, in backfill and in streaming, also for bytes that are not
\* valid UTF-8 or not JSON.
C33_Base64RoundTrip ==
  Parsed => Base64Decode(call.row.messageBase64) = WireBytes(call.payload)

\* The kinds that have a projector
KnownKinds == KnownTypes \cup {"agent_comms"}

\* C35: the table a message is projected into is the table of the
\* message_kind stored in its substrate row, and a message whose kind is not
\* a known kind is projected into no table.
C35_ProjectedByItsKind ==
  (Parsed /\ call.step = "done") =>
    /\ call.table # "none" => call.table = projectedTable(call.row.messageType)
    /\ call.row.messageType \notin KnownKinds => call.table = "none"

\* The parser reports the message as undecodable: nothing decoded, no kind,
\* nothing validated and, where it has an error field, the decode error
DecodeFailureReported ==
  /\ call.parsed.decoded = "null"
  /\ call.parsed.messageType = "null"
  /\ call.parsed.validated = "none"
  /\ call.fn = "backfill" => call.parsed.error = "Failed to decode base64 message"

\* C38: the parser reports a decode failure exactly for the payloads that
\* are not valid JSON; the documents null, false, 0 and "" are valid JSON.
C38_DecodeFailureOnlyForNonJson ==
  Parsed => (DecodeFailureReported <=> call.payload.doc = "notjson")


\* C34: a backfill pass that is not stopped starts right after the cursor it
\* read (at the first message when there is no cursor), processes the
\* messages of every page in order and goes on until a page has no next
\* link; it returns the number of messages of all its pages as
\* messagesProcessed and the timestamp of the last of them as lastTimestamp,
\* undefined when there was none.
C34_BackfillPassResult ==
  \A c \in Chains :
    /\ ch[c].pc \in MessagePcs =>
         ch[c].i = ch[c].began + ch[c].messagesProcessed + 1
    /\ (ch[c].result.returned /\ ~ch[c].result.stopped) =>
         /\ ~ch[c].result.hasNext
         /\ ch[c].result.messagesProcessed = ch[c].result.fetched
         /\ ch[c].result.lastTimestamp =
              (IF ch[c].result.messagesProcessed = 0 THEN 0
               ELSE ch[c].result.began + ch[c].result.messagesProcessed)

\* C34 witness: a pass that began at an empty cursor has returned after two
\* pages, the second one reached through the next link of the first, with
\* three messages processed
C34_Witness ==
  \E c \in Chains :
    /\ ch[c].result.returned /\ ch[c].result.began = 0
    /\ ch[c].result.fetched = PageSize + 1
    /\ ch[c].result.messagesProcessed = PageSize + 1
    /\ ch[c].result.lastTimestamp = PageSize + 1
    /\ db.cursor[ch[c].topic] = PageSize + 1


\* The reconnect timers pending and the backfill passes running for a topic
TimersPending(t) == {c \in Chains : ch[c].topic = t /\ ch[c].pc = "timer"}

PassesRunning(t) ==
  {c \in Chains : ch[c].topic = t /\ ch[c].pc \in BackfillPcs \cup {"bf_delay"}}

\* C36: a topic has at most one reconnect timer pending and at most one
\* backfill pass running at any time; a failure of its subscription leads to
\* one retry and one increment of the attempt counter, so a further call of
\* the error handler of the same subscription schedules nothing and leaves
\* the counter alone.
C36_OneRetryPerFailure ==
  /\ [](\A t \in Topics : /\ Cardinality(TimersPending(t)) <= 1
                          /\ Cardinality(PassesRunning(t)) <= 1)
  /\ [][\A c \in Chains :
          (ch[c].fired >= 1 /\ ch'[c].fired = ch[c].fired + 1) =>
            /\ \A s \in Chains : st'[s].reconnectAttempts = st[s].reconnectAttempts
            /\ \A t \in Topics : TimersPending(t)' = TimersPending(t)]_vars


\* A chain of a run that stop() ended while its backfill pass was awaiting
\* I/O, start() having been called since; the pass has returned
StoppedPassOfEarlierRun(c) ==
  /\ c < hist.firstChain
  /\ ch[c].result.returned /\ ch[c].result.stopped

\* C37: what a stopped run left behind never resumes.  After stop() during
\* a backfill pass and start() before the awaited I/O of the pass returns,
\* the continuation of the pass starts no subscriber and schedules no
\* reconnect: the restarted manager has the pipelines of its own start()
\* call only.
C37_StoppedRunNeverResumes ==
  \A c \in Chains :
    StoppedPassOfEarlierRun(c) => ch[c].pc \notin {"streaming", "timer"}


\* ---------------------------------------------------------------------------
\* BackfillService as a component: run() and stop() called on one instance
\* (part_006 222-311, the way backfill.test.ts 170-189 drives it).
\* call.at is the await the pass in progress is suspended at, "idle" when
\* none is; call.inProgress counts the passes begun and not yet ended.
\* ---------------------------------------------------------------------------
BackfillMessages == 3
MaxRuns == 3
MaxRejected == 2
RunFaults == 1

NewBackfillService ==
  [fn |-> "BackfillService", isRunning |-> FALSE, shouldStop |-> FALSE,
   at |-> "idle", cursor |-> 0, from |-> 0, hi |-> 0, i |-> 0,
   hasNext |-> FALSE, messagesProcessed |-> 0,
   inProgress |-> 0, runs |-> 0, rejected |-> 0, returned |-> 0, threw |-> 0]

\* a variant whose check sits inside the try: the finally clears the flag
rejectRunInsideTry(x) == [x EXCEPT !.rejected = @ + 1, !.isRunning = FALSE]

\* line 241: the throw precedes the try, so the finally does not run
rejectRun(x) == [x EXCEPT !.rejected = @ + 1]

\* lines 242-249: flags, counters, then the first await
beginRun(x) ==
  [x EXCEPT !.isRunning = TRUE, !.shouldStop = FALSE, !.messagesProcessed = 0,
            !.at = "getCursor", !.inProgress = @ + 1, !.runs = @ + 1]

\* lines 302-306: the finally, then the result
returnRun(x) ==
  [x EXCEPT !.isRunning = FALSE, !.at = "idle", !.inProgress = @ - 1,
            !.returned = @ + 1]

\* a rejected await leaves the try through the finally
throwRun(x) ==
  [x EXCEPT !.isRunning = FALSE, !.at = "idle", !.inProgress = @ - 1,
            !.threw = @ + 1]

\* lines 254-299 from the point a page has arrived
afterFetch(x) ==
  IF ~x.shouldStop /\ x.hi > x.from
    THEN [x EXCEPT !.i = x.from + 1, !.at = "insert"]
    ELSE IF x.shouldStop \/ lastPage(x.hasNext, x.shouldStop)
      THEN returnRun(x)
      ELSE [x EXCEPT !.from = x.hi,
                     !.at = IF PageDelayMs > 0 THEN "delay" ELSE "fetch"]

\* lines 288-299 from the point the cursor row is written
afterCursor(x) ==
  LET y == [x EXCEPT !.cursor = x.i, !.messagesProcessed = @ + 1] IN
  IF y.i < y.hi /\ ~y.shouldStop
    THEN [y EXCEPT !.i = @ + 1, !.at = "insert"]
    ELSE IF lastPage(y.hasNext, y.shouldStop)
      THEN returnRun(y)
      ELSE [y EXCEPT !.from = y.hi,
                     !.at = IF PageDelayMs > 0 THEN "delay" ELSE "fetch"]

resumeRun(x) ==
  CASE x.at = "getCursor" -> [x EXCEPT !.from = x.cursor, !.at = "fetch"]
    [] x.at = "fetch" ->
         LET hi == Min(x.from + PageSize, BackfillMessages) IN
         afterFetch([x EXCEPT !.hi = hi, !.hasNext = (hi - x.from = PageSize)])
    [] x.at = "insert" ->
         [x EXCEPT !.at = IF Validated("A", x.i) THEN "project" ELSE "cursor"]
    [] x.at = "project" -> [x EXCEPT !.at = "cursor"]
    [] x.at = "cursor" -> afterCursor(x)
    [] x.at = "delay" -> [x EXCEPT !.at = "fetch"]

InitBackfillService ==
  /\ InitProgram({<<"A">>}, 0, 0)
  /\ call = NewBackfillService

\* run() is called on the instance
RunCall ==
  /\ call.fn = "BackfillService"
  /\ IF call.isRunning
       THEN /\ call.rejected < MaxRejected
            /\ call' = rejectRun(call)
       ELSE /\ call.runs < MaxRuns
            /\ call' = beginRun(call)
  /\ UNCHANGED <<alive, running, topics, st, ch, hpc, db, published, seedTopics,
                 startIdx, startWait, nextChain, faultsLeft, adds, streamLen,
                 poison, projected, lastFail, hist>>

\* the await of the pass in progress resolves
RunResume ==
  /\ call.fn = "BackfillService"
  /\ call.at # "idle"
  /\ call' = resumeRun(call)
  /\ UNCHANGED <<alive, running, topics, st, ch, hpc, db, published, seedTopics,
                 startIdx, startWait, nextChain, faultsLeft, adds, streamLen,
                 poison, projected, lastFail, hist>>

\* the await of the pass in progress rejects
RunThrow ==
  /\ call.fn = "BackfillService"
  /\ call.at # "idle"
  /\ call.threw < RunFaults
  /\ call' = throwRun(call)
  /\ UNCHANGED <<alive, running, topics, st, ch, hpc, db, published, seedTopics,
                 startIdx, startWait, nextChain, faultsLeft, adds, streamLen,
                 poison, projected, lastFail, hist>>

\* lines 309-311
RunStop ==
  /\ call.fn = "BackfillService"
  /\ ~call.shouldStop
  /\ call' = [call EXCEPT !.shouldStop = TRUE]
  /\ UNCHANGED <<alive, running, topics, st, ch, hpc, db, published, seedTopics,
                 startIdx, startWait, nextChain, faultsLeft, adds, streamLen,
                 poison, projected, lastFail, hist>>

NextBackfillService == RunCall \/ RunResume \/ RunThrow \/ RunStop

SpecBackfillService == InitBackfillService /\ [][NextBackfillService]_vars

\* C39: an instance runs at most one pass at a time and isRunning is true
\* exactly while one is in progress; a run() call made during a pass is
\* rejected and changes nothing of the instance or of the pass; once a pass
\* has ended, by return or by a throw, isRunning is false.
C39_OnePassAtATime ==
  /\ [](call.fn = "BackfillService" =>
          /\ call.inProgress <= 1
          /\ call.isRunning <=> (call.inProgress = 1)
          /\ (call.at = "idle") <=> (call.inProgress = 0))
  /\ [][(call.fn = "BackfillService" /\ call'.rejected # call.rejected) =>
          /\ call.isRunning
          /\ call' = [call EXCEPT !.rejected = @ + 1]]_vars

C39_Witness ==
  /\ call.fn = "BackfillService"
  /\ call.rejected >= 1
  /\ call.threw >= 1
  /\ call.returned >= 1
  /\ call.runs = MaxRuns
  /\ call.isRunning
  /\ call.at = "cursor"

=============================================================================
